---- MODULE Spec2Model ----
(***************************************************************************)
(* Model of the IR record / playback utility src/src/irrp_with_class.py    *)
(* (class IRRP): the edge callback cbf with end_of_code, normalise,        *)
(* compare, tidy, backup, carrier, and the record and playback loops.      *)
(*                                                                         *)
(* Pulse lengths are microseconds.  normalise rounds to two decimals, so   *)
(* every pulse length is held as an integer number of hundredths of a      *)
(* microsecond (100 us is 10000); the float arithmetic of the source is    *)
(* done exactly on these integers.  Python's round() is round-half-even.   *)
(***************************************************************************)
EXTENDS Integers, Sequences, FiniteSets, TLC

(***************************************************************************)
(* Configuration (IRRP.__init__ defaults, additional_calculation).         *)
(***************************************************************************)
\* one microsecond in model units (two decimals kept by round(.., 2))
US == 100
\* tolerance=15: pulses within 15 percent are "the same"
TOLERANCE == 15
\* post=15 ms of silence ends a code, pre=200 ms of silence precedes one
POST_MS == 15
PRE_MS == 200
\* short: codes of at most SHORT pulses are rejected (configured value of
\* the model; the default of the constructor is 10)
SHORT == 1
\* gap=100: milliseconds between two transmitted codes
GAP_MS == 100

POST_US == POST_MS * 1000 * US
PRE_US == PRE_MS * 1000 * US
\* TOLER_MIN and TOLER_MAX as percentages: x * TOLER_MIN in the source is
\* x * TolerMinPct / 100 here
TolerMinPct == 100 - TOLERANCE
TolerMaxPct == 100 + TOLERANCE
\* GAP_S = GAP_MS / 1000.0, in steps of the playback clock (50 ms)
GAP_S == GAP_MS \div 50

(***************************************************************************)
(* Bounds of the model.                                                    *)
(***************************************************************************)
\* longest pulse buffer the receiver delivers before the code ends
MaxCode == 3
\* longest sequence given to normalise on its own
MaxNormLen == 5
\* longest sequence given to compare on its own
MaxCmpLen == 2
\* longest mark given to carrier on its own, in microseconds
MaxMicros == 300
\* number of recording sessions followed when only the save is observed
MaxSaves == 5
\* longest code of a store given to tidy on its own
MaxTidyLen == 3
\* the clock of a playback runs from 0 to MaxTime, in steps of 50 ms
MaxTime == 8

(***************************************************************************)
(* Arithmetic helpers.                                                     *)
(***************************************************************************)
\* Python round(n / d) for n >= 0, d > 0: nearest integer, ties to even
RoundHalfEven(n, d) ==
    LET q == n \div d
        r == n % d
    IN  IF 2 * r < d THEN q
        ELSE IF 2 * r > d THEN q + 1
        ELSE IF q % 2 = 0 THEN q ELSE q + 1

RECURSIVE SumOver(_, _)
\* sum of f[x] for x in the finite set S
SumOver(f, S) ==
    IF S = {} THEN 0
    ELSE LET x == CHOOSE y \in S : TRUE
         IN  f[x] + SumOver(f, S \ {x})

RECURSIVE SumSeq(_)
SumSeq(s) == IF s = <<>> THEN 0 ELSE Head(s) + SumSeq(Tail(s))

RECURSIVE SortedSeq(_)
\* sorted(S): the elements of a finite set of integers in ascending order
SortedSeq(S) ==
    IF S = {} THEN <<>>
    ELSE LET m == CHOOSE x \in S : \A y \in S : x <= y
         IN  <<m>> \o SortedSeq(S \ {m})

\* all sequences over S of length 0..n
SeqsUpTo(S, n) == UNION {[1..k -> S] : k \in 0..n}

(***************************************************************************)
(* IRRP.normalise (lines 200-266).  c is the list, positions 1..Len(c);    *)
(* Python index i is position i+1, so marks are the odd positions.         *)
(***************************************************************************)
\* the band laid around the seed: (v*TOLER_MIN) < c[j] < (v*TOLER_MAX)
SimilarAroundSeed(cj, v) ==
    (v * TolerMinPct < cj * 100) /\ (cj * 100 < v * TolerMaxPct)

\* the test of lines 248 and 260: (c[j]*TOLER_MIN) < v < (c[j]*TOLER_MAX)
Similar(cj, v) ==
    (cj * TolerMinPct < v * 100) /\ (v * 100 < cj * TolerMaxPct)

\* marks and spaces compared with one another: j = i+1, i+2, ..
SimilarSetAnyParity(c, p, i) ==
    {j \in (i + 2)..Len(c) : j \notin p /\ Similar(c[j], c[i])}

\* the unprocessed positions j = i+2, i+4, .. similar to the seed value v
SimilarSet(c, p, i) ==
    {j \in (i + 2)..Len(c) : (j - i) % 2 = 0 /\ j \notin p /\ Similar(c[j], c[i])}

\* the mean taken with the seed left out of the total
NewValueNoSeed(c, S, i) == RoundHalfEven(SumOver(c, S), 1 + Cardinality(S))

\* newv = round(tot / similar, 2)
NewValue(c, S, i) == RoundHalfEven(c[i] + SumOver(c, S), 1 + Cardinality(S))

RECURSIVE NormaliseFromForgets(_, _, _)
\* the similar positions never marked as processed (line 263 left out)
NormaliseFromForgets(c, p, i) ==
    IF i > Len(c) THEN c
    ELSE LET S == SimilarSet(c, p, i)
             newv == NewValue(c, S, i)
         IN  NormaliseFromForgets(
                 [k \in 1..Len(c) |-> IF k = i \/ k \in S THEN newv ELSE c[k]],
                 p, i + 1)

RECURSIVE NormaliseFrom(_, _, _)
\* the loop of line 239 from position i on, p the processed positions
NormaliseFrom(c, p, i) ==
    IF i > Len(c) THEN c
    ELSE IF i \in p THEN NormaliseFrom(c, p, i + 1)
    ELSE LET S == SimilarSet(c, p, i)
             newv == NewValue(c, S, i)
         IN  NormaliseFrom([k \in 1..Len(c) |-> IF k = i \/ k \in S THEN newv ELSE c[k]],
                           p \cup S, i + 1)

normalise(c) == NormaliseFrom(c, {}, 1)

(***************************************************************************)
(* IRRP.compare (lines 268-297).  The result holds the flag returned and   *)
(* the two lists as the call leaves them (p1 is averaged in place).        *)
(***************************************************************************)
\* the ends of the band taken as outside it
OutOfBandInclusive(a, b) == (a * 100 <= b * TolerMinPct) \/ (a * 100 >= b * TolerMaxPct)

\* line 287-288: v = p1[i] / p2[i] lies outside [TOLER_MIN, TOLER_MAX]
OutOfBand(a, b) == (a * 100 < b * TolerMinPct) \/ (a * 100 > b * TolerMaxPct)

\* line 292: int(round((p1[i] + p2[i]) / 2.0)), a whole number of microseconds
Average(a, b) == RoundHalfEven(a + b, 2 * US) * US

compare(p1, p2) ==
    IF Len(p1) # Len(p2)
    THEN [the_same |-> FALSE, p1 |-> p1, p2 |-> p2]
    ELSE IF \E i \in 1..Len(p1) : OutOfBand(p1[i], p2[i])
    THEN [the_same |-> FALSE, p1 |-> p1, p2 |-> p2]
    ELSE [the_same |-> TRUE,
          p1 |-> [i \in 1..Len(p1) |-> Average(p1[i], p2[i])],
          p2 |-> p2]

(***************************************************************************)
(* IRRP.tidy_mark_space and IRRP.tidy (lines 299-368).  records is a       *)
(* function from identifiers to pulse lists; base 0 is marks, 1 spaces.    *)
(***************************************************************************)
EmptyStore == [k \in {} |-> <<>>]

\* the places (identifier, position) of one parity: range(base, rl, 2)
Places(records, base) ==
    {pl \in UNION {{<<k, i>> : i \in 1..Len(records[k])} : k \in DOMAIN records} :
        (pl[2] - 1) % 2 = base}

\* lines 306-312: ms, the count of every distinct length of that parity
Counts(records, base) ==
    LET P == Places(records, base)
        L == {records[pl[1]][pl[2]] : pl \in P}
    IN  [len \in L |-> Cardinality({pl \in P : records[pl[1]][pl[2]] = len})]

\* lines 342 and 351: v = int(round(tot / float(similar)))
Canonical(tot, similar) == RoundHalfEven(tot, similar * US) * US

\* lines 344-345 and 353-354: for i in e: ms[i] = v
CloseBucket(ms, e, tot, similar) ==
    [len \in DOMAIN ms |-> IF len \in e THEN Canonical(tot, similar) ELSE ms[len]]

RECURSIVE TidyLoopChained(_, _, _, _, _, _, _)
\* every length compared with the length before it, not with the seed
TidyLoopChained(ms, sorted, i, v, e, tot, similar) ==
    IF i > Len(sorted) THEN CloseBucket(ms, e, tot, similar)
    ELSE LET plen == sorted[i]
         IN  IF plen * 100 < v * TolerMaxPct
             THEN TidyLoopChained(ms, sorted, i + 1, plen, e \cup {plen},
                                  tot + plen * ms[plen], similar + ms[plen])
             ELSE TidyLoopChained(CloseBucket(ms, e, tot, similar), sorted, i + 1,
                                  plen, {plen}, plen * ms[plen], ms[plen])

RECURSIVE TidyLoop(_, _, _, _, _, _, _)
\* the loop of line 319 from the i-th sorted length on, with the open bucket
\* (seed v, members e, weighted total tot, weight similar)
TidyLoop(ms, sorted, i, v, e, tot, similar) ==
    IF i > Len(sorted) THEN CloseBucket(ms, e, tot, similar)
    ELSE LET plen == sorted[i]
         IN  IF plen * 100 < v * TolerMaxPct
             THEN TidyLoop(ms, sorted, i + 1, v, e \cup {plen},
                           tot + plen * ms[plen], similar + ms[plen])
             ELSE TidyLoop(CloseBucket(ms, e, tot, similar), sorted, i + 1,
                           plen, {plen}, plen * ms[plen], ms[plen])

\* the map from every length to its canonical length; needs one length
CanonicalMap(ms) ==
    LET sorted == SortedSeq(DOMAIN ms)
        first == sorted[1]
    IN  TidyLoop(ms, sorted, 2, first, {first}, first * ms[first], ms[first])

\* lines 359-362
Rewrite(records, base, ms) ==
    [k \in DOMAIN records |->
        [i \in 1..Len(records[k]) |->
            IF (i - 1) % 2 = base THEN ms[records[k][i]] ELSE records[k][i]]]

\* With no length of the parity the loop of line 319 never binds tot, and
\* line 351 raises UnboundLocalError: raised is TRUE and records is as it was.
tidy_mark_space(records, base) ==
    LET ms == Counts(records, base)
    IN  IF DOMAIN ms = {}
        THEN [raised |-> TRUE, records |-> records]
        ELSE [raised |-> FALSE, records |-> Rewrite(records, base, CanonicalMap(ms))]

\* marks, then spaces; an exception of the first call skips the second
tidy(records) ==
    LET m == tidy_mark_space(records, 0)
    IN  IF m.raised THEN m ELSE tidy_mark_space(m.records, 1)

(***************************************************************************)
(* IRRP.backup (lines 163-180).  files holds f, f.bak, f.bak1 and f.bak2,  *)
(* each absent or holding a store.                                         *)
(***************************************************************************)
NoFile == [exists |-> FALSE, data |-> EmptyStore]
FileOf(store) == [exists |-> TRUE, data |-> store]

\* os.rename(src, dst) under try / except FileNotFoundError: pass
Rename(files, src, dst) ==
    IF files[src].exists
    THEN [files EXCEPT ![dst] = files[src], ![src] = NoFile]
    ELSE files

\* the rotation started at the wrong end: f first, f.bak1 last
backupNewestFirst(files) ==
    Rename(Rename(Rename(files, "f", "bak"), "bak", "bak1"), "bak1", "bak2")

backup(files) ==
    Rename(Rename(Rename(files, "bak1", "bak2"), "bak", "bak1"), "f", "bak")

\* lines 496-498: open(FILE, "w"), write json.dumps(records, sort_keys=True);
\* the text read back by json.load is the same mapping of identifiers to lists
WriteStore(files, records) == [files EXCEPT !["f"] = FileOf(records)]

(***************************************************************************)
(* IRRP.carrier (lines 182-198).  frequency in kHz, micros in whole        *)
(* microseconds; the result lists the delays of the pulses, on, off, ...   *)
(***************************************************************************)
\* cycles = int(round(micros / cycle)) with cycle = 1000.0 / frequency
Cycles(frequency, micros) == RoundHalfEven(micros * frequency, 1000)
\* on = int(round(cycle / 2.0))
OnTime(frequency) == RoundHalfEven(1000, 2 * frequency)
\* every cycle rounded on its own, the rounding error not carried over
TargetNoCarry(frequency, n) == n * RoundHalfEven(1000, frequency)
\* target = int(round((c + 1) * cycle)), here for the n-th cycle, n = c + 1
Target(frequency, n) == RoundHalfEven(n * 1000, frequency)

RECURSIVE CarrierLoop(_, _, _, _, _)
\* the loop of line 191 from cycle n on (n = c + 1)
CarrierLoop(frequency, cycles, n, sofar, wf) ==
    IF n > cycles THEN wf
    ELSE LET on == OnTime(frequency)
             off == Target(frequency, n) - (sofar + on)
         IN  CarrierLoop(frequency, cycles, n + 1, sofar + on + off,
                         wf \o <<on, off>>)

carrier(frequency, micros) ==
    CarrierLoop(frequency, Cycles(frequency, micros), 1, 0, <<>>)

(***************************************************************************)
(* State.                                                                  *)
(***************************************************************************)
VARIABLES
    \* the connection and the configuration
    connected,       \* pigpio.pi().connected (line 419)
    NO_CONFIRM,      \* self.NO_CONFIRM; CONFIRM is its negation (line 159)
    FREQ,            \* self.FREQ, kHz
    \* the operation running: record or playback
    identification,  \* the argument, [kind |-> "str" or "list", val |-> ..]
    pc,              \* the place of the record / playback thread
    argi,            \* position in identification of the loop variable arg
    records,         \* the store in memory
    files,           \* FILE, FILE.bak, FILE.bak1, FILE.bak2 on disk
    press_1,         \* the first capture, then the averaged capture
    tries,           \* failed confirmations of the current identifier
    \* the capture session, shared with the callback thread
    code,            \* self.code, the pulse buffer
    in_code,         \* self.in_code
    fetching_code,   \* self.fetching_code
    watchdog,        \* a watchdog is armed on the GPIO
    last_tick,       \* self.last_tick: the tick of the latest level change;
                     \* ticks are held as the number of the level change
                     \* modulo 2, the gap to the previous one is an input
    \* the callback thread, which runs cbf for one event after the other
    cb,              \* the statement of end_of_code it is about to run, or
                     \* "idle" outside end_of_code
    raw,             \* history: the buffer end_of_code found at line 372
    endedBy,         \* history: the branch of cbf that called end_of_code
                     \* last, "edge" (line 400) or "timeout" (line 409)
    \* playback
    tx,              \* the chains given to wave_chain, in order
    notfound,        \* the identifiers printed as "Id .. not found"
    waves,           \* the waveforms created and not yet deleted
    marks_wid,       \* marks_wid: the wave id of each mark duration
    spaces_wid,      \* spaces_wid: the wave id of each space duration
    wave,            \* wave: the wave ids of the chain, one per pulse
    now,             \* time.time(), in steps of 50 ms
    emit_time,       \* emit_time (lines 520 and 564)
    wake,            \* the time the sleep of line 554 was asked to last to
    txBusy,          \* wave_tx_busy(): a chain is being transmitted
    txEnds,          \* history: the times the transmissions ended
    \* a function exercised on its own: its arguments, its result
    entry,
    ret,
    calls,
    \* history, read by no action
    cmpCount,        \* calls of compare for the current identifier
    outcome,         \* per identifier done: "stored" or "abandoned"
    rec0,            \* the store as loaded at line 436 / 439
    files0,          \* the files when the operation began
    everArmed,       \* fetching_code was set at some time
    rejected,        \* end_of_code rejected a short code at some time
    written          \* the stores written to FILE, oldest first

cfgVars == <<connected, NO_CONFIRM, FREQ>>
capVars == <<code, in_code, fetching_code, watchdog, last_tick>>
cbVars == <<cb, raw, endedBy>>
playVars == <<tx, notfound, waves, marks_wid, spaces_wid, wave, now, emit_time, wake, txBusy, txEnds>>
pureVars == <<entry, ret, calls>>
histVars == <<cmpCount, outcome, rec0, files0, everArmed, rejected, written>>
vars == <<connected, NO_CONFIRM, FREQ, identification, pc, argi, records, files,
          press_1, tries, code, in_code, fetching_code, watchdog, last_tick, cb,
          raw, endedBy, tx,
          notfound, waves, marks_wid, spaces_wid, wave, now, emit_time, wake,
          txBusy, txEnds, entry, ret, calls, cmpCount, outcome, rec0, files0,
          everArmed, rejected, written>>

(***************************************************************************)
(* Inputs.                                                                 *)
(***************************************************************************)
Str(s) == [kind |-> "str", val |-> s]
List(l) == [kind |-> "list", val |-> l]

\* the identification arguments record is started with
RecordInputs ==
    {Str(""), Str("1"), List(<<>>), List(<<"1">>), List(<<"1", "2">>),
     List(<<"1", "1">>)}

\* the gaps between two edges the receiver delivers: the marks and spaces
\* of the remote, a silence longer than the postamble and one longer than
\* the preamble
Marks == {100 * US, 110 * US}
Spaces == {100 * US}
MidGap == POST_US + US
LongGap == PRE_US + US
Gaps == Marks \cup Spaces \cup {MidGap, LongGap}

\* stores written by earlier sessions
Store0 == [k \in {"1"} |-> <<110 * US, 100 * US>>]
Store1 == [k \in {"1"} |-> <<100 * US, 100 * US>>]
Store2 == [k \in {"2"} |-> <<100 * US, 110 * US>>]

AllAbsent == [n \in {"f", "bak", "bak1", "bak2"} |-> NoFile]
InitialFiles ==
    {AllAbsent,
     [AllAbsent EXCEPT !["f"] = FileOf(Store0)],
     [AllAbsent EXCEPT !["f"] = FileOf(Store0), !["bak"] = FileOf(Store1),
                       !["bak1"] = FileOf(Store2)]}

\* lines 532-533: marks_wid = {}, spaces_wid = {}
NoWids == [ci \in {} |-> 0]

\* the state of a fresh IRRP object (lines 89-92) and of the history
Fresh ==
    /\ pc = "start"
    /\ argi = 0
    /\ records = EmptyStore
    /\ press_1 = <<>>
    /\ tries = 0
    /\ code = <<>>
    /\ in_code = FALSE
    /\ fetching_code = FALSE
    /\ watchdog = FALSE
    /\ last_tick = 0
    /\ cb = "idle"
    /\ raw = <<>>
    /\ endedBy = "none"
    /\ tx = <<>>
    /\ notfound = <<>>
    /\ waves = {}
    /\ marks_wid = NoWids
    /\ spaces_wid = NoWids
    /\ wave = <<>>
    /\ now = 0
    /\ emit_time = 0
    /\ wake = 0
    /\ txBusy = FALSE
    /\ txEnds = <<>>
    /\ cmpCount = 0
    /\ outcome = <<>>
    /\ rec0 = EmptyStore
    /\ everArmed = FALSE
    /\ rejected = FALSE
    /\ written = <<>>

NoCall ==
    /\ entry = <<>>
    /\ ret = <<>>
    /\ calls = 0

Init ==
    /\ connected \in BOOLEAN
    /\ NO_CONFIRM \in BOOLEAN
    /\ FREQ = 38
    /\ identification \in RecordInputs
    /\ files \in InitialFiles
    /\ files0 = files
    /\ Fresh
    /\ NoCall

(***************************************************************************)
(* IRRP.end_of_code and IRRP.cbf (lines 370-410), run by the callback      *)
(* thread, one event at a time.                                            *)
(***************************************************************************)
\* a code of exactly SHORT pulses taken as long enough
end_of_codeAcceptsShort(c, fetching) ==
    IF Len(c) >= SHORT
    THEN [code |-> normalise(c), fetching_code |-> FALSE]
    ELSE [code |-> <<>>, fetching_code |-> fetching]

\* a short code left in the buffer
end_of_codeKeepsShort(c, fetching) ==
    IF Len(c) > SHORT
    THEN [code |-> normalise(c), fetching_code |-> FALSE]
    ELSE [code |-> c, fetching_code |-> fetching]

\* end_of_code: the buffer and the flag it leaves
end_of_code(c, fetching) ==
    IF Len(c) > SHORT
    THEN [code |-> normalise(c), fetching_code |-> FALSE]
    ELSE [code |-> <<>>, fetching_code |-> fetching]

\* the callback is registered at line 446 and lives until pi.stop()
Listening ==
    pc \in {"arm", "fetch", "poll", "after", "confirm_arm", "confirm_fetch",
            "confirm_poll", "confirm_cmp", "tidy"}

\* what the receiver may deliver next: inside a code a mark after an even
\* number of pulses and a space after an odd number, up to MaxCode pulses
Receivable(edge) ==
    \/ edge \in {MidGap, LongGap}
    \/ ~(fetching_code /\ in_code)
    \/ /\ Len(code) < MaxCode
       /\ edge \in (IF Len(code) % 2 = 0 THEN Marks ELSE Spaces)

\* a code started by the silence that ends one
OnEdgeStartsOnPostamble(edge, c, ic, f, w) ==
    IF ~f
    THEN [code |-> c, in_code |-> ic, fetching_code |-> f, watchdog |-> w]
    ELSE IF edge > POST_US /\ ~ic
    THEN [code |-> c, in_code |-> TRUE, fetching_code |-> f, watchdog |-> TRUE]
    ELSE IF edge > POST_US /\ ic
    THEN [code |-> end_of_code(c, f).code, in_code |-> FALSE,
          fetching_code |-> end_of_code(c, f).fetching_code, watchdog |-> FALSE]
    ELSE IF ic
    THEN [code |-> Append(c, edge), in_code |-> ic, fetching_code |-> f,
          watchdog |-> w]
    ELSE [code |-> c, in_code |-> ic, fetching_code |-> f, watchdog |-> w]

\* level changes handled whether or not a capture is armed
OnEdgeAlwaysListening(edge, c, ic, f, w) ==
    IF edge > PRE_US /\ ~ic
    THEN [code |-> c, in_code |-> TRUE, fetching_code |-> f, watchdog |-> TRUE]
    ELSE IF edge > POST_US /\ ic
    THEN [code |-> end_of_code(c, f).code, in_code |-> FALSE,
          fetching_code |-> end_of_code(c, f).fetching_code, watchdog |-> FALSE]
    ELSE IF ic
    THEN [code |-> Append(c, edge), in_code |-> ic, fetching_code |-> f,
          watchdog |-> w]
    ELSE [code |-> c, in_code |-> ic, fetching_code |-> f, watchdog |-> w]

\* cbf, lines 383-403: level # TIMEOUT, edge = tickDiff(last_tick, tick);
\* the capture session the call leaves
OnEdge(edge, c, ic, f, w) ==
    IF ~f
    THEN [code |-> c, in_code |-> ic, fetching_code |-> f, watchdog |-> w]
    ELSE IF edge > PRE_US /\ ~ic
    THEN \* start of a code, set_watchdog(GPIO, POST_MS)
         [code |-> c, in_code |-> TRUE, fetching_code |-> f, watchdog |-> TRUE]
    ELSE IF edge > POST_US /\ ic
    THEN \* end of a code, set_watchdog(GPIO, 0)
         [code |-> end_of_code(c, f).code, in_code |-> FALSE,
          fetching_code |-> end_of_code(c, f).fetching_code, watchdog |-> FALSE]
    ELSE IF ic
    THEN [code |-> Append(c, edge), in_code |-> ic, fetching_code |-> f,
          watchdog |-> w]
    ELSE [code |-> c, in_code |-> ic, fetching_code |-> f, watchdog |-> w]

\* a watchdog event that cancels the watchdog and leaves the code open
OnTimeoutOnlyCancels(c, ic, f, w) ==
    [code |-> c, in_code |-> ic, fetching_code |-> f, watchdog |-> FALSE]

\* cbf, lines 405-409: level = TIMEOUT
OnTimeout(c, ic, f, w) ==
    IF ic
    THEN [code |-> end_of_code(c, f).code, in_code |-> FALSE,
          fetching_code |-> end_of_code(c, f).fetching_code, watchdog |-> FALSE]
    ELSE [code |-> c, in_code |-> ic, fetching_code |-> f, watchdog |-> FALSE]

cbf(timeout, edge, c, ic, f, w) ==
    IF timeout THEN OnTimeout(c, ic, f, w) ELSE OnEdge(edge, c, ic, f, w)

\* lines 385-386: last_tick = tick, the tick of the level change that
\* follows the one numbered lt
NextTick(lt) == 1 - lt

\* the call ended a code of at most SHORT pulses (lines 375-377)
Rejects(c, ic, r) == ic /\ ~r.in_code /\ Len(c) <= SHORT

\* a level change is delivered to cbf, edge microseconds after the last one
CbfEdge(edge) ==
    /\ Listening
    /\ last_tick' = NextTick(last_tick)
    /\ LET r == cbf(FALSE, edge, code, in_code, fetching_code, watchdog)
       IN  /\ code' = r.code
           /\ in_code' = r.in_code
           /\ fetching_code' = r.fetching_code
           /\ watchdog' = r.watchdog
           /\ rejected' = (rejected \/ Rejects(code, in_code, r))
    /\ UNCHANGED <<cfgVars, cbVars, identification, pc, argi, records, files, press_1,
                   tries, playVars, pureVars, cmpCount, outcome, rec0, files0,
                   everArmed, written>>

\* the armed watchdog fires: cbf is called with level = TIMEOUT
CbfTimeout ==
    /\ Listening
    /\ watchdog
    /\ LET r == cbf(TRUE, 0, code, in_code, fetching_code, watchdog)
       IN  /\ code' = r.code
           /\ in_code' = r.in_code
           /\ fetching_code' = r.fetching_code
           /\ watchdog' = r.watchdog
           /\ rejected' = (rejected \/ Rejects(code, in_code, r))
    /\ UNCHANGED <<cfgVars, cbVars, identification, pc, argi, records, files, press_1,
                   tries, last_tick, playVars, pureVars, cmpCount, outcome, rec0,
                   files0, everArmed, written>>

(***************************************************************************)
(* IRRP.record (lines 427-498) under pigpio_for_rcd_ply (lines 417-425).   *)
(***************************************************************************)
CONFIRM == ~NO_CONFIRM

\* records[arg] = value
Put(store, arg, value) ==
    [k \in DOMAIN store \cup {arg} |-> IF k = arg THEN value ELSE store[k]]

\* lines 434-439: json.load of FILE, or {} when FILE does not exist
Load(fs) == IF fs["f"].exists THEN fs["f"].data ELSE EmptyStore

\* the place after the body of the loop of line 451 for position i
LoopPc(ident, i) == IF i > Len(ident.val) THEN "tidy" ELSE "arm"

\* lines 419-446: connect, check the argument, load the store, register cbf
RecordBegin ==
    /\ pc = "start"
    /\ IF ~connected \/ identification = Str("")
       THEN /\ pc' = "exit"
            /\ UNCHANGED <<identification, argi, records, rec0>>
       ELSE /\ identification' = IF identification.kind = "str"
                                 THEN List(<<identification.val>>)
                                 ELSE identification
            /\ records' = Load(files)
            /\ rec0' = Load(files)
            /\ argi' = 1
            /\ pc' = LoopPc(identification', 1)
    /\ UNCHANGED <<cfgVars, cbVars, files, press_1, tries, capVars, playVars, pureVars,
                   cmpCount, outcome, files0, everArmed, rejected, written>>

\* line 453 (and 467): self.code = []
RecordArm ==
    /\ pc \in {"arm", "confirm_arm"}
    /\ code' = <<>>
    /\ pc' = IF pc = "arm" THEN "fetch" ELSE "confirm_fetch"
    /\ UNCHANGED <<cfgVars, cbVars, identification, argi, records, files, press_1, tries,
                   in_code, fetching_code, watchdog, last_tick, playVars, pureVars,
                   histVars>>

\* line 454 (and 468): self.fetching_code = True
RecordFetch ==
    /\ pc \in {"fetch", "confirm_fetch"}
    /\ fetching_code' = TRUE
    /\ everArmed' = TRUE
    /\ pc' = IF pc = "fetch" THEN "poll" ELSE "confirm_poll"
    /\ UNCHANGED <<cfgVars, cbVars, identification, argi, records, files, press_1, tries,
                   code, in_code, watchdog, last_tick, playVars, pureVars,
                   cmpCount, outcome, rec0, files0, rejected, written>>

\* lines 455-456 (and 469-470): the loop ends when the flag is seen false
RecordPolled ==
    /\ pc \in {"poll", "confirm_poll"}
    /\ ~fetching_code
    /\ pc' = IF pc = "poll" THEN "after" ELSE "confirm_cmp"
    /\ UNCHANGED <<cfgVars, cbVars, identification, argi, records, files, press_1, tries,
                   capVars, playVars, pureVars, histVars>>

\* lines 457-464, or line 487 without confirmation
RecordAfter ==
    /\ pc = "after"
    /\ IF CONFIRM
       THEN /\ press_1' = code
            /\ tries' = 0
            /\ cmpCount' = 0
            /\ pc' = "confirm_arm"
            /\ UNCHANGED <<argi, records, outcome>>
       ELSE /\ records' = Put(records, identification.val[argi], code)
            /\ outcome' = Append(outcome, "stored")
            /\ argi' = argi + 1
            /\ pc' = LoopPc(identification, argi + 1)
            /\ UNCHANGED <<press_1, tries, cmpCount>>
    /\ UNCHANGED <<cfgVars, cbVars, identification, files, capVars, playVars, pureVars,
                   rec0, files0, everArmed, rejected, written>>

\* a budget of one retry too many
MayRetryOffByOne(t) == t <= 4

\* the retry budget of line 480: another confirmation is asked for
MayRetry(t) == t <= 3

\* the first capture stored whatever compare returned
StoreAfterCompareAlways(store, arg, r) == Put(store, arg, r.p1)

\* lines 473-475: records[arg] = press_1[:] only when compare succeeded
StoreAfterCompare(store, arg, r) ==
    IF r.the_same THEN Put(store, arg, r.p1) ELSE store

\* lines 471-485: press_2 = self.code[:], compare, store or count the failure
ConfirmCompare ==
    /\ pc = "confirm_cmp"
    /\ LET r == compare(press_1, code)
       IN  /\ press_1' = r.p1
           /\ cmpCount' = cmpCount + 1
           /\ records' = StoreAfterCompare(records, identification.val[argi], r)
           /\ IF r.the_same
              THEN /\ outcome' = Append(outcome, "stored")
                   /\ argi' = argi + 1
                   /\ pc' = LoopPc(identification, argi + 1)
                   /\ UNCHANGED tries
              ELSE /\ tries' = tries + 1
                   /\ IF MayRetry(tries + 1)
                      THEN /\ pc' = "confirm_arm"
                           /\ UNCHANGED <<argi, outcome>>
                      ELSE /\ outcome' = Append(outcome, "abandoned")
                           /\ argi' = argi + 1
                           /\ pc' = LoopPc(identification, argi + 1)
    /\ UNCHANGED <<cfgVars, cbVars, identification, files, capVars, playVars, pureVars,
                   rec0, files0, everArmed, rejected, written>>

\* lines 489-492: cancel the glitch filter and the watchdog, tidy the store;
\* an exception of tidy ends record before backup and the write
RecordTidy ==
    /\ pc = "tidy"
    /\ watchdog' = FALSE
    /\ LET t == tidy(records)
       IN  /\ records' = t.records
           /\ pc' = IF t.raised THEN "raised" ELSE "save"
    /\ UNCHANGED <<cfgVars, cbVars, identification, argi, files, press_1, tries, code,
                   in_code, fetching_code, last_tick, playVars, pureVars, histVars>>

\* lines 494-498 and pi.stop(): rotate the backups, write the store
RecordSave ==
    /\ pc = "save"
    /\ files' = WriteStore(backup(files), records)
    /\ written' = Append(written, records)
    /\ pc' = "done"
    /\ UNCHANGED <<cfgVars, cbVars, identification, argi, records, press_1, tries, capVars,
                   playVars, pureVars, cmpCount, outcome, rec0, files0, everArmed,
                   rejected>>

Next ==
    \/ RecordBegin
    \/ RecordArm
    \/ RecordFetch
    \/ RecordPolled
    \/ RecordAfter
    \/ ConfirmCompare
    \/ RecordTidy
    \/ RecordSave
    \/ \E edge \in Gaps : Receivable(edge) /\ CbfEdge(edge)
    \/ CbfTimeout

Spec == Init /\ [][Next]_vars

\* one recording session of two identifiers without confirmation (line 487),
\* the store file present
InitCapture ==
    /\ Init
    /\ connected
    /\ NO_CONFIRM
    /\ identification = List(<<"1", "2">>)
    /\ files = [AllAbsent EXCEPT !["f"] = FileOf(Store0)]

\* the steps of such a session
NextCapture ==
    \/ RecordBegin
    \/ RecordArm
    \/ RecordFetch
    \/ RecordPolled
    \/ RecordAfter
    \/ RecordTidy
    \/ RecordSave
    \/ \E edge \in Gaps : Receivable(edge) /\ CbfEdge(edge)
    \/ CbfTimeout

\* the watchdog fires within its timeout whenever it stays armed
FairSpec == InitCapture /\ [][NextCapture]_vars /\ WF_vars(CbfTimeout)

(***************************************************************************)
(* The callback thread statement by statement: cbf (lines 379-410) and     *)
(* end_of_code (lines 370-377) interleaved with the thread of record.      *)
(***************************************************************************)
\* a callback that handles level changes whether or not a capture is armed
ArmedAlways(f) == TRUE

\* line 388: if self.fetching_code
Armed(f) == f

\* a long branch of end_of_code that clears the flag before it normalises
EndOfCodeNextClearsFirst(at) ==
    CASE at = "test" -> "clear"
      [] at = "clear" -> "normalise"
      [] at = "normalise" -> "idle"

\* lines 372-374: the statement that follows statement at in the long branch
\* of end_of_code: the test, normalise(self.code), fetching_code = False
EndOfCodeNext(at) ==
    CASE at = "test" -> "normalise"
      [] at = "normalise" -> "clear"
      [] at = "clear" -> "idle"

\* lines 383-403: cbf is called for a level change; on the end of a code it
\* goes on to end_of_code
CbEdge(edge) ==
    /\ Listening
    /\ cb = "idle"
    /\ last_tick' = NextTick(last_tick)
    /\ IF ~Armed(fetching_code)
       THEN UNCHANGED <<code, in_code, watchdog, cb, endedBy>>
       ELSE IF edge > PRE_US /\ ~in_code
       THEN /\ in_code' = TRUE
            /\ watchdog' = TRUE
            /\ UNCHANGED <<code, cb, endedBy>>
       ELSE IF edge > POST_US /\ in_code
       THEN /\ in_code' = FALSE
            /\ watchdog' = FALSE
            /\ cb' = "test"
            /\ endedBy' = "edge"
            /\ UNCHANGED code
       ELSE IF in_code
       THEN /\ code' = Append(code, edge)
            /\ UNCHANGED <<in_code, watchdog, cb, endedBy>>
       ELSE UNCHANGED <<code, in_code, watchdog, cb, endedBy>>
    /\ UNCHANGED <<cfgVars, identification, pc, argi, records, files, press_1,
                   tries, fetching_code, raw, playVars, pureVars, histVars>>

\* lines 405-409: cbf is called for the watchdog; inside a code it goes on to
\* end_of_code
CbTimeout ==
    /\ Listening
    /\ cb = "idle"
    /\ watchdog
    /\ watchdog' = FALSE
    /\ IF in_code
       THEN /\ in_code' = FALSE
            /\ cb' = "test"
            /\ endedBy' = "timeout"
       ELSE UNCHANGED <<in_code, cb, endedBy>>
    /\ UNCHANGED <<cfgVars, identification, pc, argi, records, files, press_1,
                   tries, code, fetching_code, last_tick, raw, playVars, pureVars,
                   histVars>>

\* lines 372 and 375-377: the test of the length; a short code is dropped
EndOfCodeTest ==
    /\ cb = "test"
    /\ raw' = code
    /\ IF Len(code) > SHORT
       THEN /\ cb' = EndOfCodeNext("test")
            /\ UNCHANGED <<code, rejected>>
       ELSE /\ code' = <<>>
            /\ rejected' = TRUE
            /\ cb' = "idle"
    /\ UNCHANGED <<cfgVars, identification, pc, argi, records, files, press_1,
                   tries, in_code, fetching_code, watchdog, last_tick, endedBy,
                   playVars, pureVars, cmpCount, outcome, rec0, files0, everArmed,
                   written>>

\* line 373: self.normalise(self.code), in place
EndOfCodeNormalise ==
    /\ cb = "normalise"
    /\ code' = normalise(code)
    /\ cb' = EndOfCodeNext("normalise")
    /\ UNCHANGED <<cfgVars, identification, pc, argi, records, files, press_1,
                   tries, in_code, fetching_code, watchdog, last_tick, raw,
                   endedBy, playVars, pureVars, histVars>>

\* line 374: self.fetching_code = False
EndOfCodeClear ==
    /\ cb = "clear"
    /\ fetching_code' = FALSE
    /\ cb' = EndOfCodeNext("clear")
    /\ UNCHANGED <<cfgVars, identification, pc, argi, records, files, press_1,
                   tries, code, in_code, watchdog, last_tick, raw, endedBy,
                   playVars, pureVars, histVars>>

\* recording sessions of one or two identifiers, with and without
\* confirmation, the store file present
InitThreads ==
    /\ Init
    /\ connected
    /\ identification \in {List(<<"1">>), List(<<"1", "2">>)}
    /\ files = [AllAbsent EXCEPT !["f"] = FileOf(Store0)]

\* the steps of the thread of record and of the callback thread
NextThreads ==
    \/ RecordBegin
    \/ RecordArm
    \/ RecordFetch
    \/ RecordPolled
    \/ RecordAfter
    \/ ConfirmCompare
    \/ RecordTidy
    \/ RecordSave
    \/ \E edge \in Gaps : Receivable(edge) /\ CbEdge(edge)
    \/ CbTimeout
    \/ EndOfCodeTest
    \/ EndOfCodeNormalise
    \/ EndOfCodeClear

SpecThreads == InitThreads /\ [][NextThreads]_vars

(***************************************************************************)
(* Properties of record.                                                   *)
(***************************************************************************)
ConfirmPcs == {"confirm_arm", "confirm_fetch", "confirm_poll", "confirm_cmp"}
LoopPcs == {"arm", "fetch", "poll", "after"} \cup ConfirmPcs
EndPcs == {"tidy", "save", "done", "raised"}

C1_Budget ==
    /\ cmpCount \in 0..4
    /\ pc \in ConfirmPcs => cmpCount <= 3
    /\ pc \in LoopPcs => Len(outcome) = argi - 1 /\ argi <= Len(identification.val)
    /\ pc \in EndPcs => Len(outcome) = Len(identification.val)
    /\ (outcome # <<>> /\ outcome[Len(outcome)] = "abandoned" /\ pc \notin ConfirmPcs)
          => cmpCount = 4

C1_AbandonStep ==
    (Len(outcome') = Len(outcome) + 1 /\ outcome'[Len(outcome')] = "abandoned")
       => /\ cmpCount' = 4
          /\ records' = records
          /\ argi' = argi + 1
          /\ pc' = IF argi < Len(identification.val) THEN "arm" ELSE "tidy"

\* C1: with confirmation, compare is called at most 4 times per identifier;
\* the 4th mismatch abandons the identifier, the store is not assigned, and
\* the loop goes on to the next identifier: every identifier of the list is
\* processed, none is retried a 5th time and the batch is not aborted.
C1_AtMostFourCompares == [] C1_Budget /\ [][C1_AbandonStep]_vars

\* an identifier was abandoned and the capture of the next one is armed
C1_Witness ==
    /\ outcome = <<"abandoned">>
    /\ argi = 2
    /\ pc = "poll"
    /\ fetching_code

\* the identifiers whose every occurrence done so far was abandoned
AbandonedOnly ==
    {key \in {identification.val[k] : k \in DOMAIN outcome} :
        \A k \in DOMAIN outcome :
            identification.val[k] = key => outcome[k] = "abandoned"}

SameEntry(s1, s2, key) ==
    /\ key \in DOMAIN s1 <=> key \in DOMAIN s2
    /\ key \in DOMAIN s1 => s1[key] = s2[key]

\* the statement of C2 as claimed: the store written holds for an abandoned
\* key exactly what the store loaded held
C2_AsClaimed ==
    pc = "done" => \A key \in AbandonedOnly : SameEntry(files["f"].data, rec0, key)

\* C2 (amended): for an identifier whose 4 confirmations all mismatched the
\* store in memory holds, up to the tidy pass, exactly what was loaded; the
\* store written has the key exactly when the loaded store had it, with the
\* same number of pulses, each a whole number of microseconds, and equal
\* loaded lengths of one parity are written as equal lengths (the tidy pass
\* may change the values).
C2_AbandonedKeyOnlyTidied ==
    \A key \in AbandonedOnly :
        /\ pc \in LoopPcs \cup {"tidy"} => SameEntry(records, rec0, key)
        /\ pc = "done" =>
              /\ files["f"].exists
              /\ key \in DOMAIN files["f"].data <=> key \in DOMAIN rec0
              /\ key \in DOMAIN rec0 =>
                    LET old == rec0[key]
                        new == files["f"].data[key]
                    IN  /\ Len(new) = Len(old)
                        /\ \A i \in 1..Len(new) : new[i] % US = 0
                        /\ \A i, j \in 1..Len(new) :
                              ((i - j) % 2 = 0 /\ old[i] = old[j]) => new[i] = new[j]

\* a key of the loaded store was abandoned and the store was written
C2_Witness ==
    /\ pc = "done"
    /\ \E key \in AbandonedOnly : key \in DOMAIN rec0

\* C3 as claimed: tidy never raises, also on the store of a session that
\* found no store file and abandoned every identifier.
C3_TidyNeverRaises == pc # "raised"

\* C5 as claimed: with an empty identifier list or a failed connection record
\* ends at once: nothing is armed, no file is renamed or written.
C5_EmptyOrUnconnectedExits ==
    (~connected \/ identification = Str("") \/ identification = List(<<>>))
       => /\ ~everArmed
          /\ files = files0
          /\ written = <<>>

\* the handling of a watchdog event and of a level change after a gap longer
\* than the postamble agree on the capture session
C10_SameHandling ==
    in_code =>
       /\ watchdog
       /\ \A edge \in Gaps :
             edge > POST_US =>
                cbf(TRUE, 0, code, in_code, fetching_code, watchdog)
                   = cbf(FALSE, edge, code, in_code, fetching_code, watchdog)

\* C10: inside a code the watchdog is armed, and, the watchdog firing while it
\* stays armed, the machine leaves the in-code state even when no further
\* level change arrives; the watchdog event is handled as the end-of-code gap.
C10_WatchdogEndsCode == [] C10_SameHandling /\ (in_code ~> ~in_code)

\* inside a code with more than SHORT pulses and the watchdog armed
C10_Witness == in_code /\ watchdog /\ Len(code) > SHORT

(***************************************************************************)
(* normalise, compare and carrier exercised on their own: entry holds the  *)
(* arguments, ret the result (for normalise the list, changed in place).   *)
(***************************************************************************)
\* no operation is running
Idle ==
    /\ connected = TRUE
    /\ NO_CONFIRM = FALSE
    /\ identification = List(<<>>)
    /\ files = AllAbsent
    /\ files0 = files
    /\ Fresh

PureUnchanged ==
    UNCHANGED <<cfgVars, cbVars, identification, pc, argi, records, files, press_1, tries,
                capVars, playVars, histVars>>

\* raw captures: whole microseconds
NormLengths == {85 * US, 100 * US, 117 * US, 118 * US}

\* a code with equal short marks and equal short spaces
RoundTripExample ==
    <<9000 * US, 4500 * US, 600 * US, 560 * US, 600 * US, 560 * US>>

\* the input and the output of the docstring of normalise (lines 216-233)
DocstringExample ==
    <<9000 * US, 4500 * US, 600 * US, 540 * US, 620 * US, 560 * US, 590 * US,
      1660 * US, 620 * US, 1690 * US, 615 * US>>
DocstringResult ==
    <<9000 * US, 4500 * US, 609 * US, 550 * US, 609 * US, 550 * US, 609 * US,
      1675 * US, 609 * US, 1675 * US, 609 * US>>

InitNormalise ==
    /\ Idle
    /\ FREQ = 38
    /\ entry \in SeqsUpTo(NormLengths, MaxNormLen)
                  \cup {RoundTripExample, DocstringExample}
    /\ ret = entry
    /\ calls = 0

\* self.normalise(c), and once more on the list it left
CallNormalise ==
    /\ calls < 2
    /\ ret' = normalise(ret)
    /\ calls' = calls + 1
    /\ UNCHANGED entry
    /\ PureUnchanged

SpecNormalise == InitNormalise /\ [][CallNormalise]_vars

\* the statement of C4 as claimed: normalise changes nothing in its own output
C4_AsClaimed == calls >= 1 => normalise(ret) = ret

\* no two different lengths of one parity are within tolerance, the earlier
\* one taken as the seed v and the later one as c[j]
NoSimilarDistinct(c) ==
    \A i, j \in 1..Len(c) :
        (i < j /\ (j - i) % 2 = 0 /\ c[i] # c[j])
           => ~(c[j] * (100 - TOLERANCE) < c[i] * 100 /\ c[i] * 100 < c[j] * (100 + TOLERANCE))

\* C4 (amended): normalise applied to its own output changes no value when no
\* two different lengths of one parity of that output are within tolerance of
\* each other; otherwise the second pass may merge what the first kept apart.
C4_IdempotentWhenSeparated ==
    (calls >= 1 /\ NoSimilarDistinct(ret)) => normalise(ret) = ret

\* normalise merged two marks and a second pass has nothing left to merge
C4_Witness ==
    /\ calls = 1
    /\ ret # entry
    /\ NoSimilarDistinct(ret)
    /\ \E i, j \in 1..Len(ret) : ret[i] # ret[j] /\ (i - j) % 2 = 0

\* captures as normalise leaves them, with the ends of the tolerance band
CmpLengths == {85 * US, 100 * US, 101 * US, 115 * US, 116 * US}

InitCompare ==
    /\ Idle
    /\ FREQ = 38
    /\ entry \in [p1 : SeqsUpTo(CmpLengths, MaxCmpLen), p2 : SeqsUpTo(CmpLengths, MaxCmpLen)]
    /\ ret = [the_same |-> FALSE, p1 |-> entry.p1, p2 |-> entry.p2]
    /\ calls = 0

\* the_same = self.compare(press_1, press_2)
CallCompare ==
    /\ calls = 0
    /\ ret' = compare(entry.p1, entry.p2)
    /\ calls' = 1
    /\ UNCHANGED entry
    /\ PureUnchanged

SpecCompare == InitCompare /\ [][CallCompare]_vars

\* every ratio a[i] / b[i] lies in [1 - tol, 1 + tol]
AllInBand(a, b) ==
    \A i \in 1..Len(a) :
        /\ a[i] * 100 >= b[i] * (100 - TOLERANCE)
        /\ a[i] * 100 <= b[i] * (100 + TOLERANCE)

\* r is (a + b) / 2 rounded to a whole number of microseconds
IsRoundedMean(r, a, b) ==
    /\ r % US = 0
    /\ 2 * r - (a + b) <= US
    /\ (a + b) - 2 * r <= US

\* C7: compare succeeds exactly when the lengths agree and every ratio is in
\* the band; then every a[i] is the rounded mean and b is unchanged; on
\* failure neither list is modified.
C7_CompareContract ==
    calls = 1 =>
       /\ ret.the_same <=> (Len(entry.p1) = Len(entry.p2) /\ AllInBand(entry.p1, entry.p2))
       /\ ret.p2 = entry.p2
       /\ ret.the_same =>
             /\ Len(ret.p1) = Len(entry.p1)
             /\ \A i \in 1..Len(ret.p1) : IsRoundedMean(ret.p1[i], entry.p1[i], entry.p2[i])
       /\ ~ret.the_same => ret.p1 = entry.p1

\* compare succeeded on two different lists with a ratio at the end of the band
C7_Witness ==
    /\ calls = 1
    /\ ret.the_same
    /\ ret.p1 # entry.p1
    /\ \E i \in 1..Len(entry.p1) : entry.p1[i] * 100 = entry.p2[i] * (100 - TOLERANCE)

Frequencies == {36, 38, 40, 56}

InitCarrier ==
    /\ Idle
    /\ FREQ \in Frequencies
    /\ entry \in 1..MaxMicros
    /\ ret = <<>>
    /\ calls = 0

\* wf = self.carrier(self.GPIO, self.FREQ, ci)
CallCarrier ==
    /\ calls = 0
    /\ ret' = carrier(FREQ, entry)
    /\ calls' = 1
    /\ UNCHANGED entry
    /\ PureUnchanged

SpecCarrier == InitCarrier /\ [][CallCarrier]_vars

\* the statement of C6 as claimed: the on and off times sum to the duration
C6_AsClaimed == calls = 1 => SumSeq(ret) = entry

\* C6 (amended): carrier builds n whole cycles, n the whole number nearest
\* to d / cycle with cycle = 1000 / f, and the on and off times sum to the
\* whole number nearest to n * cycle (the rounding error is carried across
\* the cycles); the sum differs from d by at most half a cycle plus half a
\* microsecond and need not be d.
C6_SumIsWholeCycles ==
    calls = 1 =>
       LET n == Len(ret) \div 2
           total == SumSeq(ret)
       IN  /\ Len(ret) = 2 * n
           /\ 2 * (n * 1000 - entry * FREQ) <= 1000
           /\ 2 * (entry * FREQ - n * 1000) <= 1000
           /\ 2 * (total * FREQ - n * 1000) <= FREQ
           /\ 2 * (n * 1000 - total * FREQ) <= FREQ
           /\ \A k \in 1..Len(ret) : ret[k] > 0

\* a carrier of several cycles whose times do not sum to the duration asked
C6_Witness ==
    /\ calls = 1
    /\ Len(ret) >= 6
    /\ SumSeq(ret) # entry

(***************************************************************************)
(* The end of record over several sessions: every session loads the store, *)
(* assigns some identifiers in its loop, then tidies, rotates and writes.  *)
(***************************************************************************)
SaveCodes ==
    {<<100 * US, 100 * US>>, <<110 * US, 100 * US>>, <<130 * US, 100 * US>>}

\* what the loop of line 451 assigns in one session: nothing or one identifier
SessionUpdates ==
    {EmptyStore} \cup {[k \in {id} |-> c] : id \in {"1", "2"}, c \in SaveCodes}

\* lines 434-487 of a further session: the store is loaded and the loop has
\* assigned the identifiers of upd
RecordedSession(upd) ==
    /\ pc \in {"start", "done", "raised"}
    /\ Len(written) < MaxSaves
    /\ records' = [k \in DOMAIN Load(files) \cup DOMAIN upd |->
                      IF k \in DOMAIN upd THEN upd[k] ELSE Load(files)[k]]
    /\ rec0' = Load(files)
    /\ files0' = files
    /\ pc' = "tidy"
    /\ UNCHANGED <<cfgVars, cbVars, identification, argi, files, press_1, tries, capVars,
                   playVars, pureVars, cmpCount, outcome, everArmed, rejected,
                   written>>

InitSave ==
    /\ Idle
    /\ FREQ = 38
    /\ NoCall

NextSave ==
    \/ \E upd \in SessionUpdates : RecordedSession(upd)
    \/ RecordTidy
    \/ RecordSave

SpecSave == InitSave /\ [][NextSave]_vars

\* the store written k saves before the last one, as a file
Previous(k) ==
    IF Len(written) > k THEN FileOf(written[Len(written) - k]) ELSE NoFile

C8_History ==
    /\ files["f"] = Previous(0)
    /\ files["bak"] = Previous(1)
    /\ files["bak1"] = Previous(2)
    /\ files["bak2"] = Previous(3)

C8_SaveStep ==
    (pc = "save" /\ pc' = "done") =>
       /\ files'["f"] = FileOf(records)
       /\ files'["bak"] = files["f"]
       /\ files'["bak1"] = files["bak"]
       /\ files'["bak2"] = IF files["bak1"].exists THEN files["bak1"] ELSE files["bak2"]

\* C8: a save moves f.bak1 to f.bak2, f.bak to f.bak1, f to f.bak and writes
\* the tidied store to f; a step whose source is absent is skipped and the
\* other steps still run; after any sequence of saves f.bak, f.bak1, f.bak2
\* hold the three stores written before the last one, newest first.
C8_BackupRotation == [] C8_History /\ [][C8_SaveStep]_vars

\* five saves of stores that differ: f.bak2 was overwritten by a rotation
C8_Witness ==
    /\ Len(written) = 5
    /\ files["bak2"].exists
    /\ \A i, j \in 1..5 : i # j => written[i] # written[j]

(***************************************************************************)
(* IRRP.playback (lines 500-576) under pigpio_for_rcd_ply.                 *)
(***************************************************************************)
\* line 539: odd indices (from 0) are spaces, even ones marks
IsSpace(i) == (i - 1) % 2 = 1

\* lines 541-542 and 546-548: the waveform created for pulse i of length ci,
\* a null pulse for a space and a carrier for a mark, under wave id id
Waveform(id, i, ci) ==
    [id |-> id, kind |-> IF IsSpace(i) THEN "space" ELSE "mark", us |-> ci]

\* wave_create(): the lowest wave id not in use
WaveCreate(live) ==
    CHOOSE n \in 0..Cardinality(live) :
        /\ \A w \in live : w.id # n
        /\ \A m \in 0..(n - 1) : \E w \in live : w.id = m

\* a loop that creates a waveform for every pulse
WaveNewAlways(ci, wid) == TRUE

\* lines 540 and 545: if ci not in spaces_wid / marks_wid
WaveNew(ci, wid) == ci \notin DOMAIN wid

\* lines 537-549: the loop over the pulses of the code from pulse i on;
\* mw and sw are marks_wid and spaces_wid, live the waveforms in being
RECURSIVE CreateWaves(_, _, _, _, _, _)
CreateWaves(c, i, mw, sw, wv, live) ==
    IF i > Len(c)
    THEN [marks_wid |-> mw, spaces_wid |-> sw, wave |-> wv, waves |-> live]
    ELSE LET ci == c[i]
             wid == IF IsSpace(i) THEN sw ELSE mw
             made == WaveNew(ci, wid)
             id == WaveCreate(live)
             wid2 == IF made
                     THEN [k \in DOMAIN wid \cup {ci} |-> IF k = ci THEN id ELSE wid[k]]
                     ELSE wid
             live2 == IF made THEN live \cup {Waveform(id, i, ci)} ELSE live
         IN  CreateWaves(c, i + 1, IF IsSpace(i) THEN mw ELSE wid2,
                         IF IsSpace(i) THEN wid2 ELSE sw, Append(wv, wid2[ci]), live2)

\* lines 566-567 and 571-572: wave_delete of every wave id held in wid
WaveDelete(live, wid) == {w \in live : \A k \in DOMAIN wid : wid[k] # w.id}

\* line 556: the waveforms the wave ids of the chain stand for
Chain(wv, live) == [j \in 1..Len(wv) |-> CHOOSE w \in live : w.id = wv[j]]

\* lines 502-520: connect, open and load the store, emit_time = time.time()
PlayBegin ==
    /\ pc = "start"
    /\ IF ~connected \/ ~files["f"].exists
       THEN /\ pc' = "exit"
            /\ UNCHANGED <<identification, argi, records, rec0, emit_time>>
       ELSE /\ identification' = IF identification.kind = "str"
                                 THEN List(<<identification.val>>)
                                 ELSE identification
            /\ records' = Load(files)
            /\ rec0' = Load(files)
            /\ argi' = 1
            /\ emit_time' = now
            /\ pc' = "play"
    /\ UNCHANGED <<cfgVars, cbVars, files, press_1, tries, capVars, tx, notfound, waves,
                   marks_wid, spaces_wid, wave, now, wake, txBusy, txEnds, pureVars, cmpCount, outcome, files0,
                   everArmed, rejected, written>>

\* the places of a playback between line 525 and line 574
Playing == pc \in {"play", "delay", "sleep", "chain", "busy"}

\* time passes while playback runs
Tick ==
    /\ Playing
    /\ now < MaxTime
    /\ now' = now + 1
    /\ UNCHANGED <<cfgVars, cbVars, identification, pc, argi, records, files, press_1,
                   tries, capVars, tx, notfound, waves, marks_wid, spaces_wid, wave,
                   emit_time, wake, txBusy,
                   txEnds, pureVars, histVars>>

\* a playback loop that stops at the first identifier not found
PlayArgStopsAtUnknown ==
    /\ pc = "play"
    /\ argi <= Len(identification.val)
    /\ LET arg == identification.val[argi]
       IN  IF arg \in DOMAIN records
           THEN /\ code' = records[arg]
                /\ LET b == CreateWaves(records[arg], 1, NoWids, NoWids, <<>>, waves)
                   IN  /\ waves' = b.waves
                       /\ marks_wid' = b.marks_wid
                       /\ spaces_wid' = b.spaces_wid
                       /\ wave' = b.wave
                /\ pc' = "delay"
                /\ UNCHANGED <<argi, notfound>>
           ELSE /\ notfound' = Append(notfound, arg)
                /\ argi' = Len(identification.val) + 1
                /\ UNCHANGED <<code, waves, marks_wid, spaces_wid, wave, pc>>
    /\ UNCHANGED <<cfgVars, cbVars, identification, records, files, press_1, tries,
                   in_code, fetching_code, watchdog, last_tick, tx, now, emit_time,
                   wake, txBusy, txEnds, pureVars, histVars>>

\* lines 525-549 and 575-576: the next identifier is looked up; its waves
\* are created, or it is reported as not found
PlayArg ==
    /\ pc = "play"
    /\ argi <= Len(identification.val)
    /\ LET arg == identification.val[argi]
       IN  IF arg \in DOMAIN records
           THEN /\ code' = records[arg]
                /\ LET b == CreateWaves(records[arg], 1, NoWids, NoWids, <<>>, waves)
                   IN  /\ waves' = b.waves
                       /\ marks_wid' = b.marks_wid
                       /\ spaces_wid' = b.spaces_wid
                       /\ wave' = b.wave
                /\ pc' = "delay"
                /\ UNCHANGED <<argi, notfound>>
           ELSE /\ notfound' = Append(notfound, arg)
                /\ argi' = argi + 1
                /\ UNCHANGED <<code, waves, marks_wid, spaces_wid, wave, pc>>
    /\ UNCHANGED <<cfgVars, cbVars, identification, records, files, press_1, tries,
                   in_code, fetching_code, watchdog, last_tick, tx, now, emit_time,
                   wake, txBusy, txEnds, pureVars, histVars>>

\* lines 551-554: delay = emit_time - time.time(); sleep when it is positive
PlayDelay ==
    /\ pc = "delay"
    /\ IF emit_time - now > 0
       THEN /\ wake' = now + (emit_time - now)
            /\ pc' = "sleep"
       ELSE /\ pc' = "chain"
            /\ UNCHANGED wake
    /\ UNCHANGED <<cfgVars, cbVars, identification, argi, records, files, press_1, tries,
                   capVars, tx, notfound, waves, marks_wid, spaces_wid, wave, now,
                   emit_time, txBusy, txEnds,
                   pureVars, histVars>>

\* time.sleep(delay) returns, not before the time asked for
PlayWake ==
    /\ pc = "sleep"
    /\ now >= wake
    /\ pc' = "chain"
    /\ UNCHANGED <<cfgVars, cbVars, identification, argi, records, files, press_1, tries,
                   capVars, playVars, pureVars, histVars>>

\* line 556: wave_chain(wave) starts the transmission of the chain
PlayChain ==
    /\ pc = "chain"
    /\ tx' = Append(tx, [arg |-> identification.val[argi], chain |-> Chain(wave, waves),
                         start |-> now])
    /\ txBusy' = TRUE
    /\ pc' = "busy"
    /\ UNCHANGED <<cfgVars, cbVars, identification, argi, records, files, press_1, tries,
                   capVars, notfound, waves, marks_wid, spaces_wid, wave, now,
                   emit_time, wake, txEnds,
                   pureVars, histVars>>

\* the transmitter ends the chain, some time after it started
TxDone ==
    /\ txBusy
    /\ now > tx[Len(tx)].start
    /\ txBusy' = FALSE
    /\ txEnds' = Append(txEnds, now)
    /\ UNCHANGED <<cfgVars, cbVars, identification, pc, argi, records, files, press_1,
                   tries, capVars, tx, notfound, waves, marks_wid, spaces_wid, wave,
                   now, emit_time, wake,
                   pureVars, histVars>>

\* the next emission not held back by the gap
EmitTimeNoGap(t) == t

\* line 564: emit_time = time.time() + self.GAP_S
EmitTime(t) == t + GAP_S

\* lines 561-574: the transmitter is seen not busy, the next emission time is
\* set and the waves are deleted
PlaySent ==
    /\ pc = "busy"
    /\ ~txBusy
    /\ emit_time' = EmitTime(now)
    /\ waves' = WaveDelete(WaveDelete(waves, marks_wid), spaces_wid)
    /\ marks_wid' = NoWids
    /\ spaces_wid' = NoWids
    /\ argi' = argi + 1
    /\ pc' = "play"
    /\ UNCHANGED <<cfgVars, cbVars, identification, records, files, press_1, tries,
                   capVars, tx, notfound, wave, now, wake, txBusy, txEnds, pureVars,
                   histVars>>

\* the loop of line 525 is over: pi.stop()
PlayEnd ==
    /\ pc = "play"
    /\ argi > Len(identification.val)
    /\ pc' = "done"
    /\ UNCHANGED <<cfgVars, cbVars, identification, argi, records, files, press_1, tries,
                   capVars, playVars, pureVars, histVars>>

PlayIds == {"1", "2", "9"}
PlayInputs == {Str("1"), Str("9")} \cup {List(l) : l \in SeqsUpTo(PlayIds, 3)}

PlayStoreA ==
    [k \in {"1", "2"} |-> IF k = "1" THEN <<105 * US, 100 * US, 105 * US>>
                          ELSE <<105 * US, 105 * US, 110 * US, 105 * US>>]
PlayStoreB == [k \in {"2"} |-> <<105 * US, 100 * US>>]

InitPlayback ==
    /\ connected \in BOOLEAN
    /\ NO_CONFIRM = FALSE
    /\ FREQ = 38
    /\ identification \in PlayInputs
    /\ files \in {AllAbsent} \cup
                 {[AllAbsent EXCEPT !["f"] = FileOf(st)] :
                     st \in {PlayStoreA, PlayStoreB, EmptyStore}}
    /\ files0 = files
    /\ Fresh
    /\ NoCall

NextPlayback ==
    \/ PlayBegin
    \/ PlayArg
    \/ PlayDelay
    \/ PlayWake
    \/ PlayChain
    \/ TxDone
    \/ PlaySent
    \/ PlayEnd
    \/ Tick

SpecPlayback == InitPlayback /\ [][NextPlayback]_vars

\* the identifiers of the list the loop has dealt with, in order
Handled ==
    SubSeq(identification.val, 1, IF pc = "busy" THEN argi ELSE argi - 1)

InStore(arg) == arg \in DOMAIN rec0

\* C9: every identifier absent from the store is reported as not found and
\* skipped; every identifier present is transmitted exactly once, with the
\* chain of its stored code, in list order, wherever the absent ones stand;
\* the loop ends only when the whole list is dealt with.
C9_PlaybackSkipsUnknown ==
    pc \in {"play", "delay", "sleep", "chain", "busy", "done"} =>
       /\ [i \in 1..Len(tx) |-> tx[i].arg] = SelectSeq(Handled, InStore)
       /\ notfound = SelectSeq(Handled, LAMBDA arg : ~InStore(arg))
       /\ \A i \in 1..Len(tx) :
             /\ Len(tx[i].chain) = Len(rec0[tx[i].arg])
             /\ \A j \in 1..Len(tx[i].chain) : tx[i].chain[j].us = rec0[tx[i].arg][j]
       /\ pc = "done" => Len(Handled) = Len(identification.val)

\* playback ended having sent identifiers that stand after and before
\* identifiers reported as not found
C9_Witness ==
    /\ pc = "done"
    /\ identification = List(<<"9", "1", "9">>)
    /\ Len(tx) = 1
    /\ notfound = <<"9", "9">>

(***************************************************************************)
(* Properties of the capture session within record.                        *)
(***************************************************************************)
\* the identifiers the session has stored a capture under
StoredKeys ==
    {identification.val[k] : k \in {n \in DOMAIN outcome : outcome[n] = "stored"}}

C12_ExactlyShortAccepted ==
    [][(in_code /\ ~in_code' /\ Len(code) >= SHORT)
          => (~fetching_code' /\ Len(code') = Len(code))]_vars

\* the capture session as a record of code, in_code, fetching_code, watchdog
Session == [code |-> code, in_code |-> in_code, fetching_code |-> fetching_code,
            watchdog |-> watchdog]

\* armed and not inside a code: a level change after more than PRE_US starts
\* a code, the buffer unchanged; any other level change changes nothing
C17_AwaitingStart ==
    (fetching_code /\ ~in_code) =>
       /\ code = <<>>
       /\ \A edge \in Gaps \cup {PRE_US} :
             cbf(FALSE, edge, code, in_code, fetching_code, watchdog)
                = IF edge > PRE_US
                  THEN [Session EXCEPT !.in_code = TRUE, !.watchdog = TRUE]
                  ELSE Session

\* the step that starts a code arms the watchdog and appends nothing
C17_StartStep ==
    (fetching_code /\ ~in_code /\ pc' = pc) =>
       /\ code' = code
       /\ fetching_code'
       /\ in_code' => watchdog'

\* C17: while capture is armed and no code is open, a level change starts a
\* code (in_code set, watchdog armed) exactly when its gap exceeds PRE_US;
\* the gap of the starting edge is not appended, a gap of at most PRE_US
\* leaves buffer and in_code as they are, and the buffer is empty until a
\* code starts, so arming inside a burst captures no partial code.
C17_StartOnlyAfterPreamble == [] C17_AwaitingStart /\ [][C17_StartStep]_vars

\* a code has just started during a confirmation capture: nothing buffered yet
C17_Witness ==
    /\ pc = "confirm_poll"
    /\ fetching_code
    /\ in_code
    /\ watchdog
    /\ code = <<>>

\* the step that ends a code
C18_EndStep ==
    (in_code /\ ~in_code') =>
       /\ fetching_code
       /\ IF Len(code) <= SHORT
          THEN /\ code' = <<>>
               /\ fetching_code'
               /\ pc \in {"poll", "confirm_poll"}
               /\ UNCHANGED <<pc, argi, records, press_1, tries, outcome>>
          ELSE /\ code' = normalise(code)
               /\ ~fetching_code'
               /\ UNCHANGED <<pc, argi, records, press_1, tries, outcome>>

IdleCapture == ~fetching_code /\ ~in_code

\* C19 as claimed: an event delivered while no capture is armed changes no
\* state of the capture session, the tick of the last edge included.
C19_AsClaimed == [][(IdleCapture /\ pc' = pc) => UNCHANGED capVars]_vars

\* whatever event is delivered to the idle session, cbf leaves it as it is
C19_IdleIgnores ==
    (IdleCapture /\ Listening) =>
       /\ \A edge \in Gaps :
             cbf(FALSE, edge, code, in_code, fetching_code, watchdog) = Session
       /\ cbf(TRUE, 0, code, in_code, fetching_code, watchdog) = Session

C19_IdleStep ==
    (IdleCapture /\ pc' = pc) =>
       UNCHANGED <<code, in_code, fetching_code, watchdog, records, press_1, tries>>

\* C19 (amended): an event delivered while no capture is armed changes
\* neither the buffer, nor in_code, nor the fetching flag, nor the watchdog,
\* nor the store; a level change still records its tick as the last edge.
C19_IdleKeepsAllButTick == [] C19_IdleIgnores /\ [][C19_IdleStep]_vars

\* a level change was delivered before the first capture was armed
C19_Witness ==
    /\ pc = "arm"
    /\ argi = 1
    /\ ~everArmed
    /\ last_tick = 1

(***************************************************************************)
(* Properties of normalise, stated on the list given and the list left.    *)
(***************************************************************************)
\* x is within one microsecond of us microseconds
About(x, us) == (us - 1) * US < x /\ x < (us + 1) * US

\* the statement of C13 as claimed: [9000,4500,600,560,600,560] is left with
\* short marks of about 609 and short spaces of about 550, and normalising
\* once more changes nothing
C13_AsClaimed ==
    (entry = RoundTripExample /\ calls >= 1) =>
       /\ About(ret[3], 609) /\ About(ret[5], 609)
       /\ About(ret[4], 550) /\ About(ret[6], 550)
       /\ normalise(ret) = ret

\* C13 (amended): normalise at 15 percent leaves [9000,4500,600,560,600,560]
\* as it is, short marks 600 and short spaces 560, after one pass and after
\* a second pass on the result.
C13_ExampleUnchanged ==
    (entry = RoundTripExample /\ calls >= 1) =>
       ret = <<9000 * US, 4500 * US, 600 * US, 560 * US, 600 * US, 560 * US>>

\* the example was normalised twice
C13_Witness == entry = RoundTripExample /\ calls = 2

\* the band of C15 as claimed, around the seed: v*(1-tol) < c[j] < v*(1+tol)
BandAroundSeed(v, cj) ==
    v * (100 - TOLERANCE) < cj * 100 /\ cj * 100 < v * (100 + TOLERANCE)

\* the band around the candidate: c[j]*(1-tol) < v < c[j]*(1+tol)
BandAroundCandidate(v, cj) ==
    cj * (100 - TOLERANCE) < v * 100 /\ v * 100 < cj * (100 + TOLERANCE)

\* a first seed i0 with the later positions of its parity inside the band
FirstGroup(c, i0, Band(_, _)) ==
    {i0} \cup {j \in (i0 + 1)..Len(c) : (j - i0) % 2 = 0 /\ Band(c[i0], c[j])}

\* the mean of the values of c at the positions G, to two decimals
MeanOf(c, G) == RoundHalfEven(SumOver(c, G), Cardinality(G))

\* the first mark and the first space are seeds with every later position of
\* their parity unprocessed: the positions of their groups hold the mean of
\* the group
FirstGroupsAveraged(Band(_, _)) ==
    calls = 1 =>
       \A i0 \in {1, 2} \cap DOMAIN entry :
          \A j \in FirstGroup(entry, i0, Band) :
             ret[j] = MeanOf(entry, FirstGroup(entry, i0, Band))

\* the statement of C15 as claimed: c[j] is similar to the seed value v
\* exactly when v*(1 - tol) < c[j] < v*(1 + tol)
C15_AsClaimed == FirstGroupsAveraged(BandAroundSeed)

\* C15 (amended): c[j] is similar to the seed value v exactly when
\* c[j]*(1 - tol) < v < c[j]*(1 + tol), the band laid around the candidate.
C15_BandAroundCandidate == FirstGroupsAveraged(BandAroundCandidate)

\* marks 100 and 117: 117 is outside 100 +- 15 percent, 100 is inside
\* 117 +- 15 percent, and normalise averaged the two
C15_Witness ==
    /\ calls = 1
    /\ Len(entry) >= 3
    /\ entry[1] = 100 * US
    /\ entry[3] = 117 * US
    /\ ret[1] = ret[3]

RECURSIVE SeedOf(_, _)
\* the seed whose pass assigns position j: the first seed before j, of the
\* parity of j, whose original value is similar to the original c[j]; j
\* itself when there is none
SeedOf(c, j) ==
    LET cands == {i \in 1..(j - 1) :
                     (j - i) % 2 = 0 /\ SeedOf(c, i) = i /\ BandAroundCandidate(c[i], c[j])}
    IN  IF cands = {} THEN j ELSE CHOOSE i \in cands : \A k \in cands : i <= k

\* every position holds the mean of the original values of its seed's set
MeansOfSets(c) ==
    [j \in 1..Len(c) |-> MeanOf(c, {k \in 1..Len(c) : SeedOf(c, k) = SeedOf(c, j)})]

\* C16: normalise keeps the length; every seed, taken in index order, and the
\* unprocessed later positions of its parity similar to the seed's original
\* value get the mean of their original values to two decimals; marks and
\* spaces do not mix; the example of the docstring gives its stated result.
C16_MeanOfSeedSets ==
    calls = 1 =>
       /\ Len(ret) = Len(entry)
       /\ ret = MeansOfSets(entry)
       /\ entry = DocstringExample => ret = DocstringResult

\* the docstring example was normalised
C16_Witness ==
    /\ calls = 1
    /\ entry = DocstringExample
    /\ ret # entry

(***************************************************************************)
(* tidy exercised on its own: entry holds the store given, ret the store   *)
(* left and whether the call raised.                                       *)
(***************************************************************************)
\* lengths as compare and normalise leave them
TidyLengths == {100 * US, 10250, 110 * US, 115 * US}

\* stores of one or two codes
TidyStores ==
    {[k \in {"1"} |-> c] : c \in SeqsUpTo(TidyLengths, MaxTidyLen)}
       \cup {[k \in {"1", "2"} |-> IF k = "1" THEN c ELSE d] :
                c \in SeqsUpTo(TidyLengths, MaxTidyLen),
                d \in SeqsUpTo(TidyLengths, 2)}

InitTidy ==
    /\ Idle
    /\ FREQ = 38
    /\ entry \in TidyStores
    /\ ret = [raised |-> FALSE, records |-> entry]
    /\ calls = 0

\* self.tidy(records)
CallTidy ==
    /\ calls = 0
    /\ ret' = tidy(entry)
    /\ calls' = 1
    /\ UNCHANGED entry
    /\ PureUnchanged

SpecTidy == InitTidy /\ [][CallTidy]_vars

\* the distinct lengths of one parity in the store
LengthsOf(st, base) == {st[pl[1]][pl[2]] : pl \in Places(st, base)}

\* the number of occurrences of a length of that parity
Occurrences(st, base, len) ==
    Cardinality({pl \in Places(st, base) : st[pl[1]][pl[2]] = len})

RECURSIVE BucketSeed(_, _)
\* the seed of the bucket of len among the lengths L taken in ascending
\* order: the seed of the length before it when len < seed*(1 + tol), else len
BucketSeed(L, len) ==
    LET smaller == {l \in L : l < len}
    IN  IF smaller = {} THEN len
        ELSE LET prev == CHOOSE l \in smaller : \A m \in smaller : m <= l
                 seed == BucketSeed(L, prev)
             IN  IF len * 100 < seed * (100 + TOLERANCE) THEN seed ELSE len

\* round(sum of length*count / sum of count) over the bucket of len
BucketMean(st, base, len) ==
    LET L == LengthsOf(st, base)
        B == {l \in L : BucketSeed(L, l) = BucketSeed(L, len)}
        tot == SumOver([l \in B |-> l * Occurrences(st, base, l)], B)
        cnt == SumOver([l \in B |-> Occurrences(st, base, l)], B)
    IN  RoundHalfEven(tot, cnt * US) * US

C14_GapBetweenCodes ==
    \A i \in 2..Len(tx) :
        /\ Len(txEnds) >= i - 1
        /\ tx[i].start >= txEnds[i - 1] + GAP_S

\* a second code was sent exactly one gap after the first ended
C14_Witness ==
    /\ Len(tx) = 2
    /\ Len(txEnds) >= 1
    /\ tx[2].start = txEnds[1] + GAP_S

(***************************************************************************)
(* The waveforms of playback.                                              *)
(***************************************************************************)
\* the distinct mark durations and the distinct space durations of a code
MarkLengths(c) == {c[i] : i \in {k \in 1..Len(c) : ~IsSpace(k)}}
SpaceLengths(c) == {c[i] : i \in {k \in 1..Len(c) : IsSpace(k)}}

\* the places of playback where the waveforms of an identifier are in being
WavesHeld == pc \in {"delay", "sleep", "chain", "busy"}

\* the stored code of the identifier being played
PlayedCode == rec0[identification.val[argi]]

\* at most one carrier per mark duration and one null pulse per space
\* duration, of the identifier being played, and none outside its playing
C21_LiveWaves ==
    /\ \A w1, w2 \in waves : (w1.kind = w2.kind /\ w1.us = w2.us) => w1 = w2
    /\ WavesHeld =>
          /\ \A w \in waves :
                w.us \in IF w.kind = "mark" THEN MarkLengths(PlayedCode)
                         ELSE SpaceLengths(PlayedCode)
          /\ Cardinality(waves) <= Cardinality(MarkLengths(PlayedCode))
                                   + Cardinality(SpaceLengths(PlayedCode))
    /\ ~WavesHeld => waves = {}

\* a step that deletes waveforms follows the end of the transmission of the
\* chain they were created for
C21_DeleteStep ==
    (\E w \in waves : w \notin waves') =>
        /\ ~txBusy
        /\ Len(txEnds) = Len(tx)
        /\ Len(tx) > 0
        /\ tx[Len(tx)].arg = identification.val[argi]
        /\ \A w \in waves : \E j \in 1..Len(tx[Len(tx)].chain) : tx[Len(tx)].chain[j] = w

\* a step that creates waveforms finds none in being
C21_CreateStep == (\E w \in waves' : w \notin waves) => waves = {}

\* C21: the waveforms created for an identifier are deleted only after its
\* chain has been transmitted to the end, and before any waveform of the next
\* identifier is created; one identifier has at most one carrier per distinct
\* mark duration and one null pulse per distinct space duration, so the live
\* waveforms never outnumber the distinct mark and space durations of the
\* identifier being played, and none is live when playback ends.
C21_WavesDeletedBetweenCodes ==
    /\ []C21_LiveWaves
    /\ [][C21_DeleteStep /\ C21_CreateStep]_vars

\* the second identifier of a playback has been sent and its transmission is
\* over; its code has a repeated mark, so two waveforms serve three pulses
C21_Witness ==
    /\ pc = "busy"
    /\ ~txBusy
    /\ Len(tx) = 2
    /\ Len(code) = 3
    /\ Cardinality(waves) = 2
    /\ Len(notfound) = 0

(***************************************************************************)
(* The two threads of a recording session.                                 *)
(***************************************************************************)
\* the places where the next statement of record empties the buffer (lines
\* 453 and 467) or copies it (lines 461, 471 and 487)
RecordResets == pc \in {"arm", "confirm_arm"}
RecordCopies == pc \in {"after", "confirm_cmp"}

\* record touches the buffer only with the flag down and the callback
\* thread outside end_of_code
C22_RecordAlone == (RecordResets \/ RecordCopies) => (~fetching_code /\ cb = "idle")

\* what record copies is the whole capture, normalised
C22_CopyIsNormalised ==
    RecordCopies => (Len(raw) > SHORT /\ code = normalise(raw))

\* a step of the callback thread that changes the buffer finds the flag up
C22_CallbackStep == (pc' = pc /\ code' # code) => fetching_code

\* the step that clears the flag finds the buffer normalised and ends
\* end_of_code
C22_ClearStep ==
    (fetching_code /\ ~fetching_code') =>
        (code = normalise(raw) /\ code' = code /\ cb' = "idle")

\* C22: however the thread of record and the callback interleave, the
\* callback changes the pulse buffer only while fetching_code is true, record
\* copies or empties it only while the flag is false, and the flag is cleared
\* only once the buffer has been normalised, so that the copy record takes
\* is the complete normalised capture.
C22_BufferHandover ==
    /\ [](C22_RecordAlone /\ C22_CopyIsNormalised)
    /\ [][C22_CallbackStep /\ C22_ClearStep]_vars

\* record is about to copy a confirming capture that normalise has changed
C22_Witness ==
    /\ pc = "confirm_cmp"
    /\ Len(code) = 3
    /\ code # raw
    /\ code = normalise(raw)

\* C23: in every state of the capture session in_code is true only if
\* fetching_code is true, so the watchdog branch of the callback, which does
\* not test the flag, runs end_of_code only for a capture that is armed: the
\* callback thread is inside end_of_code only while the flag is true.
C23_InCodeOnlyWhenArmed == (in_code \/ cb # "idle") => fetching_code

\* the watchdog ended a code and end_of_code is about to normalise it
C23_Witness ==
    /\ endedBy = "timeout"
    /\ cb = "normalise"
    /\ fetching_code
    /\ ~in_code

====
